---- MODULE Spec2Model ----
(***************************************************************************)
(* Model of tool_xlsx_to_sql: the tabular readers (utils/csv_reader.py,    *)
(* utils/xlsx.py) and the pipeline of main.py (Conf, open_input_file,      *)
(* check_conf, make_sqls, write_sqls, import_mysql, export_mysql), and the  *)
(* change record of an edited Xlsx (set_value, restore, save_as).          *)
(*                                                                         *)
(* Python values.  A text is a sequence of one-character strings.  A cell  *)
(* value is a record: None is [none |-> TRUE], a str is [none |-> FALSE,   *)
(* str |-> text].  Formatting (str(v), f"{v}") maps None to the text       *)
(* "None", so it is not the identity.                                      *)
(***************************************************************************)
EXTENDS Integers, Sequences, FiniteSets, TLC

\* ------------------------------------------------------------- bounds
\* most rows in an input table
MaxRows == 3
\* largest configured sql.len
MaxSqlLen == 2
\* largest configured row.begin
MaxRowBegin == 1
\* get_value is probed with indices in -MaxIdx..MaxIdx
MaxIdx == 4

\* ------------------------------------------------------ Python values
None == [none |-> TRUE, str |-> <<>>]

Text(t) == [none |-> FALSE, str |-> t]

\* str(v), f"{v}"
PyStr(v) == IF v.none THEN <<"N", "o", "n", "e">> ELSE v.str

\* s.replace(" ", "")
RemoveSpaces(t) == SelectSeq(t, LAMBDA ch : ch # " ")

\* seq[i] of a Python list does not raise IndexError
PyIndexOk(seq, i) == (-Len(seq)) <= i /\ i < Len(seq)

\* seq[i] of a Python list: 0-based, a negative index counts from the end
PyIndex(seq, i) == IF i >= 0 THEN seq[i + 1] ELSE seq[Len(seq) + i + 1]

\* max of a non-empty set of integers
SetMax(S) == CHOOSE m \in S : \A n \in S : n <= m

\* ------------------------------------------------------- input tables
\* The rows an input file is built from: texts with spaces, with "-",
\* short rows and an empty row.
RowSamples ==
    { <<>>,
      << <<"1">>, <<"a", " ", "b">>, <<"K">> >>,
      << <<"1">>, <<"a", "b">>, <<"L">>, <<"E">> >>,
      << <<"1", "-">>, <<"b">>, <<"M">> >>,
      << <<"1">>, <<"-", "b">>, <<"M">> >> }

Tables == UNION { [1..n -> RowSamples] : n \in 0..MaxRows }

\* ---------------------------------------------------------- CSVReader
\* CSVReader.__init__: the parsed rows
CSVReader_init(table) == [kind |-> "csv", workbook |-> TRUE, sheet |-> TRUE, data |-> table]

CSVReader_is_open(x) == TRUE

\* a mutation of the cell access: the indices are used 0-based
CSVReader_cell_zero_based(x, row_index, col_index) ==
    IF ~PyIndexOk(x.data, row_index) THEN [exc |-> "IndexError", val |-> None]
    ELSE LET row == PyIndex(x.data, row_index)
         IN  IF ~PyIndexOk(row, col_index) THEN [exc |-> "IndexError", val |-> None]
             ELSE [exc |-> "none", val |-> Text(PyIndex(row, col_index))]

\* self.data[row_index - 1][col_index - 1]: the cell, or IndexError
CSVReader_cell(x, row_index, col_index) ==
    IF ~PyIndexOk(x.data, row_index - 1) THEN [exc |-> "IndexError", val |-> None]
    ELSE LET row == PyIndex(x.data, row_index - 1)
         IN  IF ~PyIndexOk(row, col_index - 1) THEN [exc |-> "IndexError", val |-> None]
             ELSE [exc |-> "none", val |-> Text(PyIndex(row, col_index - 1))]

\* CSVReader.get_value: try: return the cell; except IndexError: return None
CSVReader_get_value(x, row_index, col_index) ==
    LET r == CSVReader_cell(x, row_index, col_index)
    IN  IF r.exc = "IndexError" THEN [exc |-> "none", val |-> None] ELSE r

CSVReader_get_max_row(x) == Len(x.data)

CSVReader_get_max_column(x) ==
    IF Len(x.data) > 0 THEN SetMax({ Len(x.data[i]) : i \in 1..Len(x.data) }) ELSE 0

\* --------------------------------------------------- call results
\* a call that returned v
Ret(v) == [exc |-> "none", val |-> v]

\* a call that raised exception e
Raise(e) == [exc |-> e, val |-> None]

\* a call that returned the integer n, or raised
RetInt(n) == [exc |-> "none", num |-> n]

RaiseInt(e) == [exc |-> e, num |-> 0]

\* --------------------------------------------------------------- Xlsx
\* The input file on disk: status "ok" (readable, holds table), "missing",
\* "invalid" (not a workbook / not UTF-8 text), "nosheet" (a workbook whose
\* worksheets list is empty, so worksheets[0] raises IndexError).
Files ==
    { [status |-> "ok", table |-> t] : t \in Tables }
    \cup { [status |-> s, table |-> <<>>] : s \in {"missing", "invalid", "nosheet"} }

\* Xlsx.__init__: load_workbook assigns __workbook, then sheet(0) assigns
\* __sheet; every exception of either is caught and logged.
Xlsx_init(f) ==
    [kind |-> "xlsx",
     workbook |-> f.status \in {"ok", "nosheet"},
     sheet |-> f.status = "ok",
     data |-> f.table]

\* Xlsx.is_open: self.__workbook is not None
Xlsx_is_open(x) == x.workbook

\* Xlsx.get_max_row: self.__sheet.max_row (a worksheet's max_row is never below 1)
Xlsx_get_max_row(x) ==
    IF ~x.sheet THEN RaiseInt("AttributeError")
    ELSE RetInt(IF Len(x.data) = 0 THEN 1 ELSE Len(x.data))

\* Xlsx.get_max_column: self.__sheet.max_column (never below 1)
Xlsx_get_max_column(x) ==
    IF ~x.sheet THEN RaiseInt("AttributeError")
    ELSE RetInt(SetMax({1} \cup { Len(x.data[i]) : i \in 1..Len(x.data) }))

\* Xlsx.get_value: self.__sheet.cell(row=, column=).value; the worksheet
\* rejects a row or column below 1 with ValueError, an unset cell is None
Xlsx_get_value(x, row_index, col_index) ==
    IF ~x.sheet THEN Raise("AttributeError")
    ELSE IF row_index < 1 \/ col_index < 1 THEN Raise("ValueError")
    ELSE IF row_index <= Len(x.data) /\ col_index <= Len(x.data[row_index])
         THEN Ret(Text(x.data[row_index][col_index]))
         ELSE Ret(None)

\* ------------------------------------------------- IReader dispatch
IReader_is_open(x) == IF x.kind = "csv" THEN CSVReader_is_open(x) ELSE Xlsx_is_open(x)

IReader_get_value(x, row_index, col_index) ==
    IF x.kind = "csv" THEN CSVReader_get_value(x, row_index, col_index)
    ELSE Xlsx_get_value(x, row_index, col_index)

IReader_get_max_row(x) ==
    IF x.kind = "csv" THEN RetInt(CSVReader_get_max_row(x)) ELSE Xlsx_get_max_row(x)

IReader_get_max_column(x) ==
    IF x.kind = "csv" THEN RetInt(CSVReader_get_max_column(x)) ELSE Xlsx_get_max_column(x)

\* --------------------------------------------------------------- Conf
\* conf.get("col.expire"): a key that is absent yields None
Absent == [present |-> FALSE, val |-> 0]

Present(n) == [present |-> TRUE, val |-> n]

\* the column mappings config.yml is drawn from
ColSamples ==
    { [col_server |-> 1, col_name |-> 2, col_cdkey |-> 3, col_expire |-> Absent],
      [col_server |-> 1, col_name |-> 2, col_cdkey |-> 3, col_expire |-> Present(0)],
      [col_server |-> 1, col_name |-> 2, col_cdkey |-> 3, col_expire |-> Present(4)],
      [col_server |-> 2, col_name |-> 5, col_cdkey |-> 3, col_expire |-> Present(1)] }

\* config.yml
Ymls ==
    { [ext |-> e, row_begin |-> rb, sql_len |-> sl, cols |-> cs,
       expire_date |-> Text(<<"D">>)] :
        e \in {"csv", "xlsx", "other"}, rb \in 0..MaxRowBegin,
        sl \in (-1)..MaxSqlLen, cs \in ColSamples }

\* Conf.__init__; col_expire = conf.get("col.expire") or 0
Conf_init(y) ==
    [ext |-> y.ext, expire_date |-> y.expire_date, row_begin |-> y.row_begin,
     col_server |-> y.cols.col_server, col_name |-> y.cols.col_name,
     col_cdkey |-> y.cols.col_cdkey,
     col_expire |-> IF ~y.cols.col_expire.present \/ y.cols.col_expire.val = 0
                    THEN 0 ELSE y.cols.col_expire.val,
     sql_len |-> y.sql_len]

\* -------------------------------------------------------------- state
VARIABLES
    yml,              \* config.yml
    file,             \* the input file on disk
    pc,               \* position in main: start, opened, checked, loop, generated,
                      \*   written, imported, done, failed
    err,              \* the exception main caught, "none" while there is none
    c,                \* the Conf object
    x,                \* the reader open_input_file returned
    row_index,        \* make_sqls: the row the loop is at
    row_max,          \* make_sqls: x.get_max_row()
    duplicate_datas,  \* make_sqls: dedup key -> cd keys kept for it
    values,           \* make_sqls: the pending batch
    sqls,             \* make_sqls: the statements so far
    printed,          \* the duplicate rows reported on stdout
    reads,            \* the get_value calls make_sqls made: <<row, col, field>>
    out_file,         \* the output .sql file
    trace,            \* the steps main has entered, in order
    calls,            \* the external commands run, with their exit codes
    got,              \* the last direct get_value call on the reader
    xw                \* an Xlsx that is edited: sheets, change record, file on disk

vars == <<yml, file, pc, err, c, x, row_index, row_max, duplicate_datas, values,
          sqls, printed, reads, out_file, trace, calls, got, xw>>

gen_vars == <<row_index, row_max, duplicate_datas, values, sqls, printed, reads>>

\* no reader yet
NoReader == [kind |-> "none", workbook |-> FALSE, sheet |-> FALSE, data |-> <<>>]

NoFile == [written |-> FALSE, lines |-> <<>>]

NoCall == [called |-> FALSE, row |-> 0, col |-> 0, res |-> Ret(None)]

EmptyDict == [k \in {} |-> <<>>]

\* no Xlsx is being edited
NoXlsx ==
    [ignore_fomula |-> FALSE, workbookW |-> FALSE, sheet |-> EmptyDict, sheetW |-> EmptyDict,
     changed_datas |-> EmptyDict, disk |-> EmptyDict, base |-> EmptyDict,
     restored |-> FALSE, last_op |-> "none", wrote |-> FALSE, edits |-> 0]

\* the file an extension can name: a text file has no worksheets, and the
\* content of a file of an unsupported type is never looked at
FileFor(y) ==
    CASE y.ext = "xlsx"  -> Files
      [] y.ext = "csv"   -> { f \in Files : f.status # "nosheet" }
      [] OTHER           -> { [status |-> "ok", table |-> <<>>] }

InitLocals ==
    /\ row_index = 0
    /\ row_max = 0
    /\ duplicate_datas = EmptyDict
    /\ values = <<>>
    /\ sqls = <<>>
    /\ printed = <<>>
    /\ reads = {}

\* main, after c = Conf()
Init ==
    /\ yml \in Ymls
    /\ file \in FileFor(yml)
    /\ pc = "start"
    /\ err = "none"
    /\ c = Conf_init(yml)
    /\ x = NoReader
    /\ InitLocals
    /\ out_file = NoFile
    /\ trace = <<>>
    /\ calls = <<>>
    /\ got = NoCall
    /\ xw = NoXlsx

\* main's except clause: the exception is printed and main returns
Fail(e) ==
    /\ pc' = "failed"
    /\ err' = e

\* ---------------------------------------------------- open_input_file
\* open_input_file: the reader, or the exception raised
open_input_file(conf, f) ==
    CASE conf.ext = "xlsx" -> Ret(Xlsx_init(f))
      [] conf.ext = "csv"  ->
            IF f.status = "ok" THEN Ret(CSVReader_init(f.table))
            ELSE Raise(IF f.status = "missing" THEN "FileNotFoundError"
                                               ELSE "UnicodeDecodeError")
      [] OTHER             -> Raise("UnsupportedType")

OpenInputFile ==
    /\ pc = "start"
    /\ trace' = Append(trace, "open")
    /\ LET r == open_input_file(c, file)
       IN  IF r.exc = "none"
           THEN /\ x' = r.val
                /\ pc' = "opened"
                /\ err' = err
           ELSE /\ x' = x
                /\ Fail(r.exc)
    /\ UNCHANGED <<xw, yml, file, c, gen_vars, out_file, calls, got>>

\* --------------------------------------------------------- check_conf
\* a mutation of check_conf's maximum: the name column is left out
conf_max_without_name(conf) ==
    SetMax({conf.col_server, conf.col_cdkey, conf.col_expire})

\* check_conf's max(c.col_server, c.col_name, c.col_cdkey, c.col_expire)
conf_max(conf) ==
    SetMax({conf.col_server, conf.col_name, conf.col_cdkey, conf.col_expire})

\* check_conf: "none", or the exception it raises
check_conf(conf, rd) ==
    IF ~IReader_is_open(rd) THEN "OpenFailed"
    ELSE LET col_max == IReader_get_max_column(rd)
         IN  IF col_max.exc # "none" THEN col_max.exc
             ELSE IF col_max.num < conf_max(conf) THEN "ConfigError"
             ELSE "none"

CheckConf ==
    /\ pc = "opened"
    /\ trace' = Append(trace, "check")
    /\ LET e == check_conf(c, x)
       IN  IF e = "none"
           THEN pc' = "checked" /\ err' = err
           ELSE Fail(e)
    /\ UNCHANGED <<xw, yml, file, c, x, gen_vars, out_file, calls, got>>

\* ---------------------------------------------------------- make_sqls
\* create_table: the DROP TABLE / CREATE TABLE text, with the default expire date
create_table(conf) ==
    [kind |-> "create", expire_date |-> PyStr(conf.expire_date), tuples |-> <<>>]

\* f"insert into {c.sql_table} (...) values {', '.join(values)};"
insert_stmt(vals) == [kind |-> "insert", expire_date |-> <<>>, tuples |-> vals]

\* f'("{s}", "{n}", "{k}", "{e}")'; row names the source row the tuple was built from
value_tuple(row, s, n, k, e) ==
    [row |-> row, s |-> PyStr(s), n |-> n, k |-> PyStr(k), e |-> PyStr(e)]

\* n = str(x.get_value(row_index, c.col_name)).replace(" ", "")
role_name(v) == RemoveSpaces(PyStr(v))

\* d_k = f"{s}-{n}"
dedup_key(s, n) == PyStr(s) \o <<"-">> \o n

\* duplicate_datas.setdefault(d_k, [])
setdefault(d, k) == IF k \in DOMAIN d THEN d ELSE d @@ (k :> <<>>)

\* a mutation of the duplicate test: nothing is a duplicate
is_duplicate_never(d, k) == FALSE

\* len(duplicate_datas[d_k]) > 0
is_duplicate(d, k) == Len(d[k]) > 0

\* a mutation of the flush threshold: > for >=
batch_full_strict(vals, conf) == Len(vals) > conf.sql_len

\* len(values) >= c.sql_len
batch_full(vals, conf) == Len(vals) >= conf.sql_len

\* a mutation of values.append: the tuple goes to the front
append_value_front(vals, t) == <<t>> \o vals

\* values.append(...)
append_value(vals, t) == Append(vals, t)

\* a mutation of the expire column test: >= for >
uses_expire_column_from_zero(conf) == conf.col_expire >= 0

\* if c.col_expire > 0
uses_expire_column(conf) == conf.col_expire > 0

\* the get_value calls of one loop iteration, in the order they are made
row_calls(conf, row) ==
    << [field |-> "s", col |-> conf.col_server],
       [field |-> "n", col |-> conf.col_name],
       [field |-> "k", col |-> conf.col_cdkey] >>
    \o (IF uses_expire_column(conf)
        THEN << [field |-> "e", col |-> conf.col_expire] >> ELSE <<>>)

MakeSqlsBegin ==
    /\ pc = "checked"
    /\ trace' = Append(trace, "generate")
    /\ LET rm == IReader_get_max_row(x)
       IN  IF rm.exc # "none"
           THEN /\ Fail(rm.exc)
                /\ UNCHANGED <<row_index, row_max>>
           ELSE /\ pc' = "loop"
                /\ err' = err
                /\ row_max' = rm.num
                /\ row_index' = c.row_begin
    /\ sqls' = <<create_table(c)>>
    /\ duplicate_datas' = EmptyDict
    /\ values' = <<>>
    /\ UNCHANGED <<xw, yml, file, c, x, printed, reads, out_file, calls, got>>

\* one iteration of: for row_index in range(c.row_begin, row_max + 1)
MakeSqlsRow ==
    /\ pc = "loop"
    /\ row_index <= row_max
    /\ LET cs     == row_calls(c, row_index)
           res    == [i \in 1..Len(cs) |-> IReader_get_value(x, row_index, cs[i].col)]
           raised == { i \in 1..Len(cs) : res[i].exc # "none" }
           last   == IF raised = {} THEN Len(cs)
                     ELSE CHOOSE i \in raised : \A j \in raised : i <= j
           s      == res[1].val
           n      == role_name(res[2].val)
           k      == res[3].val
           e      == IF uses_expire_column(c) THEN res[4].val ELSE c.expire_date
           d_k    == dedup_key(s, n)
           dd     == setdefault(duplicate_datas, d_k)
           vals   == append_value(values, value_tuple(row_index, s, n, k, e))
       IN  /\ reads' = reads \cup { <<row_index, cs[i].col, cs[i].field>> : i \in 1..last }
           /\ IF raised # {}
              THEN /\ Fail(res[last].exc)
                   /\ UNCHANGED <<row_index, duplicate_datas, values, sqls, printed>>
              ELSE /\ pc' = pc
                   /\ err' = err
                   /\ row_index' = row_index + 1
                   /\ IF is_duplicate(dd, d_k)
                      THEN /\ printed' = Append(printed, [row |-> row_index, s |-> PyStr(s),
                                                          n |-> n, k |-> PyStr(k)])
                           /\ duplicate_datas' = dd
                           /\ UNCHANGED <<values, sqls>>
                      ELSE /\ duplicate_datas' = [dd EXCEPT ![d_k] = Append(@, k)]
                           /\ printed' = printed
                           /\ IF batch_full(vals, c)
                              THEN sqls' = Append(sqls, insert_stmt(vals)) /\ values' = <<>>
                              ELSE sqls' = sqls /\ values' = vals
    /\ UNCHANGED <<xw, yml, file, c, x, row_max, out_file, trace, calls, got>>

\* a mutation of the final flush: the pending batch is lost
final_flush_missing(sq, vals) == sq

\* if len(values) > 0: sqls.append(insert ...)
final_flush(sq, vals) == IF Len(vals) > 0 THEN Append(sq, insert_stmt(vals)) ELSE sq

\* after the loop: the pending batch is flushed and cleared; return sqls
MakeSqlsEnd ==
    /\ pc = "loop"
    /\ row_index > row_max
    /\ pc' = "generated"
    /\ sqls' = final_flush(sqls, values)
    /\ values' = <<>>
    /\ UNCHANGED <<xw, yml, file, err, c, x, row_index, row_max, duplicate_datas, printed,
                   reads, out_file, trace, calls, got>>

\* --------------------------------------- write_sqls, import, export
\* the exit codes os.system can report
ExitCodes == {0, 1}

\* write_sqls: the file is written, or open/write raises
WriteSqls ==
    /\ pc = "generated"
    /\ trace' = Append(trace, "write")
    /\ \/ /\ out_file' = [written |-> TRUE, lines |-> sqls]
          /\ pc' = "written"
          /\ err' = err
       \/ /\ out_file' = out_file
          /\ Fail("IOError")
    /\ UNCHANGED <<xw, yml, file, c, x, gen_vars, calls, got>>

\* a mutation of the exit code test: the exit code is ignored
command_failed_never(exit_code) == FALSE

\* if exit_code != 0: raise
command_failed(exit_code) == exit_code # 0

\* import_mysql: one os.system("mysql ... source file") call
ImportMysql ==
    /\ pc = "written"
    /\ trace' = Append(trace, "load")
    /\ \E exit_code \in ExitCodes :
          /\ calls' = Append(calls, [cmd |-> "mysql", exit_code |-> exit_code])
          /\ IF command_failed(exit_code)
             THEN Fail("ImportFailed")
             ELSE pc' = "imported" /\ err' = err
    /\ UNCHANGED <<xw, yml, file, c, x, gen_vars, out_file, got>>

\* export_mysql: one os.system("mysqldump ...") call
ExportMysql ==
    /\ pc = "imported"
    /\ trace' = Append(trace, "dump")
    /\ \E exit_code \in ExitCodes :
          /\ calls' = Append(calls, [cmd |-> "mysqldump", exit_code |-> exit_code])
          /\ IF command_failed(exit_code)
             THEN Fail("ExportFailed")
             ELSE pc' = "done" /\ err' = err
    /\ UNCHANGED <<xw, yml, file, c, x, gen_vars, out_file, got>>

Next ==
    \/ OpenInputFile
    \/ CheckConf
    \/ MakeSqlsBegin
    \/ MakeSqlsRow
    \/ MakeSqlsEnd
    \/ WriteSqls
    \/ ImportMysql
    \/ ExportMysql

Spec == Init /\ [][Next]_vars

\* ------------------------------------------ direct use of a CSVReader
\* a CSVReader over any table, probed with get_value
InitReader ==
    /\ yml \in { y \in Ymls : /\ y.ext = "csv" /\ y.row_begin = 1 /\ y.sql_len = 1
                              /\ y.cols.col_server = 1 /\ y.cols.col_expire = Absent }
    /\ file \in { f \in Files : f.status = "ok" }
    /\ pc = "reader"
    /\ err = "none"
    /\ c = Conf_init(yml)
    /\ x = CSVReader_init(file.table)
    /\ InitLocals
    /\ out_file = NoFile
    /\ trace = <<>>
    /\ calls = <<>>
    /\ got = NoCall
    /\ xw = NoXlsx

ProbeIdx == (-MaxIdx)..MaxIdx

\* one get_value(r, cl) call on the reader
GetValueCall ==
    /\ pc = "reader"
    /\ ~got.called
    /\ \E r \in ProbeIdx, cl \in ProbeIdx :
          got' = [called |-> TRUE, row |-> r, col |-> cl, res |-> CSVReader_get_value(x, r, cl)]
    /\ UNCHANGED <<xw, yml, file, pc, err, c, x, gen_vars, out_file, trace, calls>>

NextReader == GetValueCall

SpecReader == InitReader /\ [][NextReader]_vars

\* ------------------------------------------------ editing an Xlsx
\* most set_value calls in one run
MaxEdits == 3

\* the cells of the sheet that is edited, as <<row, column>>
XlsxCells == { <<1, 1>>, <<1, 2>>, <<2, 1>> }

\* the values a cell holds or is given; None is an empty cell
XlsxVals == { None, Text(<<"a">>), Text(<<"b">>) }

\* a formula, as the workbook loaded without data_only holds it
Formula == Text(<<"=">>)

\* Xlsx.__init__ on a file whose computed values are vs and whose cell texts
\* are fs: __workbook is loaded with data_only=True, __workbookW is None
Xlsx_init_edit(vs, fs, ignore) ==
    [ignore_fomula |-> ignore, workbookW |-> FALSE, sheet |-> vs, sheetW |-> EmptyDict,
     changed_datas |-> EmptyDict, disk |-> fs, base |-> vs,
     restored |-> FALSE, last_op |-> "none", wrote |-> FALSE, edits |-> 0]

\* Xlsx.__try_init_xlsx_write: the write workbook is loaded from the file once
try_init_xlsx_write(st) ==
    IF st.ignore_fomula \/ st.workbookW THEN st
    ELSE [st EXCEPT !.workbookW = TRUE, !.sheetW = st.disk]

\* Xlsx.__try_record_change_data: the cell's value is recorded unless the
\* cell already has a record
try_record_change_data(cd, sh, row, col) ==
    LET cd1 == IF row \in DOMAIN cd THEN cd ELSE cd @@ (row :> EmptyDict)
    IN  IF col \in DOMAIN cd1[row] THEN cd1
        ELSE [cd1 EXCEPT ![row] = @ @@ (col :> sh[<<row, col>>])]

\* sheet.cell(row=, column=, value=): the worksheet assigns the cell only
\* when value is not None
sheet_cell(sh, row, col, value) ==
    IF value = None THEN sh ELSE [sh EXCEPT ![<<row, col>>] = value]

\* Xlsx.set_value
Xlsx_set_value(st, row, col, value) ==
    LET s1 == try_init_xlsx_write(st)
        cd == try_record_change_data(s1.changed_datas, s1.sheet, row, col)
    IN  [s1 EXCEPT
            !.changed_datas = cd,
            !.sheet = sheet_cell(s1.sheet, row, col, value),
            !.sheetW = IF s1.workbookW
                       THEN sheet_cell(s1.sheetW, row, col, value)
                       ELSE s1.sheetW]

\* the cells the change record holds
recorded(cd) == { cell \in XlsxCells : cell[1] \in DOMAIN cd /\ cell[2] \in DOMAIN cd[cell[1]] }

RECURSIVE restore_cells(_, _, _)
\* restore's loops: set_value(row, col, value) for every record
restore_cells(st, cd, cells) ==
    IF cells = {} THEN st
    ELSE LET cell == CHOOSE k \in cells : TRUE
         IN  restore_cells(Xlsx_set_value(st, cell[1], cell[2], cd[cell[1]][cell[2]]),
                           cd, cells \ {cell})

\* Xlsx.drop_changed_data
drop_changed_data(st) == [st EXCEPT !.changed_datas = EmptyDict]

\* Xlsx.restore
Xlsx_restore(st) ==
    IF DOMAIN st.changed_datas = {} THEN st
    ELSE drop_changed_data(restore_cells(st, st.changed_datas, recorded(st.changed_datas)))

\* Xlsx.save_as: the content the file gets, and whether it was written
Xlsx_save_as(st) ==
    IF DOMAIN st.changed_datas = {} THEN [st EXCEPT !.wrote = FALSE]
    ELSE IF ~st.workbookW
         THEN IF st.ignore_fomula THEN [st EXCEPT !.disk = st.sheet, !.wrote = TRUE]
              ELSE [st EXCEPT !.wrote = FALSE]
         ELSE [st EXCEPT !.disk = st.sheetW, !.wrote = TRUE]

\* an open Xlsx over any small sheet; cell <<1, 1>> may hold a formula
InitXlsx ==
    /\ yml \in { y \in Ymls : /\ y.ext = "xlsx" /\ y.row_begin = 1 /\ y.sql_len = 1
                              /\ y.cols.col_server = 1 /\ y.cols.col_expire = Absent }
    /\ file = [status |-> "ok", table |-> <<>>]
    /\ pc = "xlsx"
    /\ err = "none"
    /\ c = Conf_init(yml)
    /\ x = NoReader
    /\ InitLocals
    /\ out_file = NoFile
    /\ trace = <<>>
    /\ calls = <<>>
    /\ got = NoCall
    /\ \E vs \in [XlsxCells -> XlsxVals], ignore \in BOOLEAN :
          \E fs \in { vs, [vs EXCEPT ![<<1, 1>>] = Formula] } :
              xw = Xlsx_init_edit(vs, fs, ignore)

xlsx_frame == <<yml, file, pc, err, c, x, gen_vars, out_file, trace, calls, got>>

\* x.set_value(row, col, value); base is the sheet as it was when the change
\* record was last empty
XlsxSetValue ==
    /\ pc = "xlsx"
    /\ xw.edits < MaxEdits
    /\ \E cell \in XlsxCells, v \in XlsxVals :
          xw' = [Xlsx_set_value(xw, cell[1], cell[2], v) EXCEPT
                    !.base = IF DOMAIN xw.changed_datas = {} THEN xw.sheet ELSE xw.base,
                    !.restored = FALSE,
                    !.last_op = "set",
                    !.edits = xw.edits + 1]
    /\ UNCHANGED xlsx_frame

\* x.restore()
XlsxRestore ==
    /\ pc = "xlsx"
    /\ xw.last_op # "restore"
    /\ xw' = [Xlsx_restore(xw) EXCEPT
                !.base = IF DOMAIN xw.changed_datas = {} THEN xw.sheet ELSE xw.base,
                !.restored = TRUE,
                !.last_op = "restore"]
    /\ UNCHANGED xlsx_frame

\* x.save() / x.save_as(filename)
XlsxSaveAs ==
    /\ pc = "xlsx"
    /\ xw' = [Xlsx_save_as(xw) EXCEPT !.last_op = "save"]
    /\ UNCHANGED xlsx_frame

NextXlsx ==
    \/ XlsxSetValue
    \/ XlsxRestore
    \/ XlsxSaveAs

SpecXlsx == InitXlsx /\ [][NextXlsx]_vars

\* ------------------------------------------------ terms of the claims
\* the statements after the leading CREATE TABLE
Inserts == IF Len(sqls) = 0 THEN <<>> ELSE Tail(sqls)

RECURSIVE Flatten(_)
\* the value tuples of a sequence of statements, in statement order
Flatten(stmts) ==
    IF stmts = <<>> THEN <<>> ELSE Head(stmts).tuples \o Flatten(Tail(stmts))

\* every value tuple built so far: the emitted ones, then the pending batch
AllTuples == Flatten(Inserts) \o values

\* make_sqls has returned
Generated == pc \in {"generated", "written", "imported", "done"}
             \/ (pc = "failed" /\ err \in {"IOError", "ImportFailed", "ExportFailed"})

\* make_sqls is in its loop or has returned
Generating == pc = "loop" \/ Generated

\* the rows the loop has gone through
Scanned == c.row_begin..(row_index - 1)

\* what the reader holds for a row
RowServer(r) == IReader_get_value(x, r, c.col_server).val

RowName(r) == RemoveSpaces(PyStr(IReader_get_value(x, r, c.col_name).val))

RowKey(r) == IReader_get_value(x, r, c.col_cdkey).val

\* two rows of the same (serverId, name) pair
SamePair(r1, r2) == RowServer(r1) = RowServer(r2) /\ RowName(r1) = RowName(r2)

\* two rows the composite key "{serverId}-{name}" does not tell apart
SameKey(r1, r2) ==
    PyStr(RowServer(r1)) \o <<"-">> \o RowName(r1) = PyStr(RowServer(r2)) \o <<"-">> \o RowName(r2)

\* the scanned rows that no earlier scanned row shares its composite key with
Kept == { r \in Scanned : \A r1 \in Scanned : r1 < r => ~SameKey(r1, r) }

\* ceil(u / d) for u >= 0: d > 0 rounds up, d < 0 gives a quotient <= 0
CeilDiv(u, d) == IF d > 0 THEN (u + d - 1) \div d ELSE 0 - (u \div (0 - d))

\* n = ceil(u / d); for d = 0 the quotient exists only as 0 / 0 read as 0
IsCeil(n, u, d) == IF u = 0 THEN n = 0 ELSE d # 0 /\ n = CeilDiv(u, d)

\* C1: a row of row_begin..maxRow whose (serverId, space-stripped name) pair
\* occurs in an earlier row of the range is never emitted in any INSERT; it is
\* reported and the loop goes on, so an emitted tuple always carries the cd key
\* of the first row of its pair.
C1_FirstOfPairOnly ==
    Generating =>
        /\ \A r \in Scanned :
              (\E r1 \in Scanned : r1 < r /\ SamePair(r1, r)) =>
                  /\ \A i \in 1..Len(AllTuples) : AllTuples[i].row # r
                  /\ \E i \in 1..Len(printed) : printed[i].row = r
        /\ \A i \in 1..Len(AllTuples) :
              /\ AllTuples[i].row \in Scanned
              /\ AllTuples[i].k = PyStr(RowKey(AllTuples[i].row))
              /\ \A r1 \in Scanned : r1 < AllTuples[i].row => ~SamePair(r1, AllTuples[i].row)
        /\ (Generated => row_index > row_max)

\* a later row of a pair, with another cd key, was dropped and a row after it was emitted
C1_Witness ==
    /\ pc = "generated"
    /\ \E i \in 1..Len(printed), j \in 1..Len(AllTuples), r1 \in Scanned :
          /\ r1 < printed[i].row
          /\ SamePair(r1, printed[i].row)
          /\ RowKey(r1) # RowKey(printed[i].row)
          /\ AllTuples[j].row > printed[i].row

\* C2 (as stated): for all inputs the number of INSERT statements is
\* ceil(uniqueRowCount / sql_len), 0 when uniqueRowCount is 0.
C2_InsertCountAnySqlLen ==
    Generated => IsCeil(Len(Inserts), Cardinality(Kept), c.sql_len)

\* C2 (amended): for sql_len >= 1 the number of INSERT statements is
\* ceil(uniqueRowCount / sql_len), 0 when uniqueRowCount is 0.
C2_InsertCount ==
    (Generated /\ c.sql_len >= 1) =>
        Len(Inserts) = CeilDiv(Cardinality(Kept), c.sql_len)

\* three kept rows with sql_len = 2: two statements, the last one partial
C2_Witness ==
    /\ pc = "generated"
    /\ c.sql_len = 2
    /\ c.row_begin = 1
    /\ Cardinality(Kept) = 3
    /\ Len(Inserts) = 2

\* C3 (as stated): for every configuration each INSERT has 1..sql_len tuples,
\* only the last may have fewer than sql_len, and the pending batch is flushed.
C3_BatchSizesAnySqlLen ==
    Generated =>
        /\ values = <<>>
        /\ \A i \in 1..Len(Inserts) :
              /\ Len(Inserts[i].tuples) >= 1
              /\ Len(Inserts[i].tuples) <= c.sql_len
              /\ (i < Len(Inserts) => Len(Inserts[i].tuples) = c.sql_len)

\* C3 (amended): for sql_len >= 1 each INSERT has 1..sql_len tuples, only the
\* last may have fewer than sql_len; the pending batch stays below sql_len in
\* the loop and is flushed at its end, so no kept row is left out.
C3_BatchSizes ==
    (Generating /\ c.sql_len >= 1) =>
        /\ \A i \in 1..Len(Inserts) :
              /\ Inserts[i].kind = "insert"
              /\ Len(Inserts[i].tuples) >= 1
              /\ Len(Inserts[i].tuples) <= c.sql_len
              /\ (i < Len(Inserts) \/ pc = "loop" => Len(Inserts[i].tuples) = c.sql_len)
        /\ Len(values) < c.sql_len
        /\ (Generated => values = <<>> /\ Len(Flatten(Inserts)) = Cardinality(Kept))

\* a partial batch was flushed as the last statement after a full one
C3_Witness ==
    /\ pc = "generated"
    /\ c.sql_len = 2
    /\ Len(Inserts) = 2
    /\ Len(Inserts[1].tuples) = 2
    /\ Len(Inserts[2].tuples) = 1

\* C4: make_sqls returns the CREATE TABLE statement followed by INSERT
\* statements only; their tuples, concatenated in statement order, are the rows
\* of row_begin..maxRow that were not dropped as duplicates, each once, in
\* ascending row order and with that row's values; their number is the rows
\* scanned minus the duplicates reported.
C4_TuplesAreKeptRowsInOrder ==
    Generated =>
        LET ts == Flatten(Inserts)
        IN  /\ Len(sqls) >= 1
            /\ sqls[1].kind = "create"
            /\ \A i \in 2..Len(sqls) : sqls[i].kind = "insert"
            /\ Scanned = c.row_begin..row_max
            /\ { ts[i].row : i \in 1..Len(ts) } = Kept
            /\ \A i, j \in 1..Len(ts) : i < j => ts[i].row < ts[j].row
            /\ \A i \in 1..Len(ts) :
                  /\ ts[i].s = PyStr(RowServer(ts[i].row))
                  /\ ts[i].n = RowName(ts[i].row)
                  /\ ts[i].k = PyStr(RowKey(ts[i].row))
            /\ Len(ts) = Cardinality(Scanned) - Len(printed)

\* two kept rows in one statement with a dropped row between them
C4_Witness ==
    /\ pc = "generated"
    /\ \E i \in 1..Len(Inserts), p \in 1..Len(printed) :
          /\ Len(Inserts[i].tuples) >= 2
          /\ Inserts[i].tuples[1].row < printed[p].row
          /\ printed[p].row < Inserts[i].tuples[2].row

\* C5: CSVReader.get_value(row, col) never raises; it returns None when row is
\* above the number of rows or col is above the length of the row (or of every
\* row), and the stored string when 1 <= row <= rows and 1 <= col <= len(row).
C5_GetValueInAndAboveRange ==
    got.called =>
        /\ got.res.exc = "none"
        /\ (got.row > Len(x.data) => got.res.val = None)
        /\ (\A i \in 1..Len(x.data) : got.col > Len(x.data[i])) => got.res.val = None
        /\ (got.row >= 1 /\ got.row <= Len(x.data)) =>
              IF got.col > Len(x.data[got.row]) THEN got.res.val = None
              ELSE got.col >= 1 => got.res.val = Text(x.data[got.row][got.col])

\* a read one past the last column of the last row of a table with rows
C5_Witness ==
    /\ got.called
    /\ Len(x.data) > 0
    /\ got.row = Len(x.data)
    /\ Len(x.data[got.row]) > 0
    /\ got.col = Len(x.data[got.row]) + 1
    /\ got.res.val = None

\* C6: CSVReader.get_value(row, col) with row < 1 or col < 1 yields None.
C6_BelowRangeIsNone ==
    (got.called /\ (got.row < 1 \/ got.col < 1)) =>
        got.res = [exc |-> "none", val |-> None]

\* the columns the configuration names
RequiredCols == {c.col_server, c.col_name, c.col_cdkey, c.col_expire}

\* the source has a maxColumn: a CSVReader, or an Xlsx whose sheet was selected
HasMaxColumn == x.kind = "csv" \/ (x.kind = "xlsx" /\ x.sheet)

\* some configured column is beyond the source's maxColumn
TooFewColumns ==
    HasMaxColumn /\ \E col \in RequiredCols : IReader_get_max_column(x).num < col

\* C7: once check_conf has run on a source whose maxColumn is below a
\* configured column, main has failed with the configuration error and nothing
\* was generated, read, written or run; on an open source whose maxColumn covers
\* every configured column check_conf raises nothing.
C7_ColumnCountValidated ==
    /\ (Len(trace) >= 2 /\ TooFewColumns) =>
          /\ pc = "failed"
          /\ err = "ConfigError"
          /\ trace = <<"open", "check">>
          /\ sqls = <<>>
          /\ reads = {}
          /\ ~out_file.written
          /\ calls = <<>>
    /\ (Len(trace) >= 2 /\ HasMaxColumn /\ ~TooFewColumns /\ IReader_is_open(x)) =>
          /\ err \notin {"ConfigError", "OpenFailed", "AttributeError"}
          /\ (Len(trace) = 2 => pc = "checked")

\* a table with rows, one column short of the configured maximum, was refused
C7_Witness ==
    /\ pc = "failed"
    /\ err = "ConfigError"
    /\ Len(x.data) > 0
    /\ \E col \in RequiredCols : IReader_get_max_column(x).num = col - 1

\* main's steps, in the order of its body
Steps == <<"open", "check", "generate", "write", "load", "dump">>

IsPrefix(a, b) == Len(a) <= Len(b) /\ \A i \in 1..Len(a) : a[i] = b[i]

\* C8: the steps entered are a prefix of open, check, generate, write, load,
\* dump; mysql and mysqldump run at most once each, mysql only after the file
\* was written and mysqldump only after mysql returned 0; after a nonzero exit
\* code nothing further is entered.
C8_StepOrderAndAbort ==
    /\ IsPrefix(trace, Steps)
    /\ IsPrefix([i \in 1..Len(calls) |-> calls[i].cmd], <<"mysql", "mysqldump">>)
    /\ Len(calls) = Cardinality({ i \in 1..Len(trace) : trace[i] \in {"load", "dump"} })
    /\ (Len(calls) >= 1 => out_file.written /\ out_file.lines = sqls)
    /\ (Len(calls) >= 2 => calls[1].exit_code = 0)
    /\ \A i \in 1..Len(calls) :
          calls[i].exit_code # 0 => i = Len(calls) /\ pc = "failed" /\ Len(trace) = i + 4
    /\ (pc = "done" => trace = Steps /\ \A i \in 1..Len(calls) : calls[i].exit_code = 0)

\* mysql returned nonzero: the run failed and mysqldump was not run
C8_Witness ==
    /\ pc = "failed"
    /\ err = "ImportFailed"
    /\ calls = << [cmd |-> "mysql", exit_code |-> 1] >>
    /\ trace = <<"open", "check", "generate", "write", "load">>

\* C9: an Xlsx built from a file that failed to load is not open, and
\* check_conf then fails with the open error before anything is generated.
C9_XlsxLoadFailureIsNotOpen ==
    (x.kind = "xlsx" /\ file.status # "ok") =>
        /\ ~Xlsx_is_open(x)
        /\ (Len(trace) >= 2 => pc = "failed" /\ err = "OpenFailed" /\ sqls = <<>>)

\* C10: a tuple's expire value is the row's cell in column col.expire when
\* col.expire > 0; when col.expire is 0 or absent it is the configured
\* expire_date and make_sqls makes no get_value call for the expire field.
C10_ExpireSource ==
    LET ce == yml.cols.col_expire
    IN  /\ (ce.present /\ ce.val > 0) =>
              \A i \in 1..Len(AllTuples) :
                  AllTuples[i].e = PyStr(IReader_get_value(x, AllTuples[i].row, ce.val).val)
        /\ (~ce.present \/ ce.val = 0) =>
              /\ \A i \in 1..Len(AllTuples) : AllTuples[i].e = PyStr(yml.expire_date)
              /\ \A rd \in reads : rd[3] # "e"

\* col.expire absent: a row that has a fourth cell was emitted with the static date
C10_Witness ==
    /\ pc = "generated"
    /\ ~yml.cols.col_expire.present
    /\ \E i \in 1..Len(AllTuples) :
          /\ AllTuples[i].row >= 1
          /\ AllTuples[i].row <= Len(x.data)
          /\ Len(x.data[AllTuples[i].row]) >= 4
          /\ AllTuples[i].e = PyStr(yml.expire_date)
          /\ AllTuples[i].e # x.data[AllTuples[i].row][4]

\* C11: make_sqls drops (reports) a row only if an earlier row of the scanned
\* range has the same serverId and the same space-stripped name.
C11_DroppedOnlyAfterSamePair ==
    Generating =>
        \A i \in 1..Len(printed) :
            \E r1 \in Scanned : r1 < printed[i].row /\ SamePair(r1, printed[i].row)

\* C12: with only set_value calls since the change record was last empty, the
\* record holds, for exactly the modified cells, the value each had before its
\* first modification; after restore() every cell has that value again, the
\* record is empty, and a save()/save_as() that follows writes nothing.
C12_RestoreReturnsOriginal ==
    pc = "xlsx" =>
        /\ \A cell \in recorded(xw.changed_datas) :
              xw.changed_datas[cell[1]][cell[2]] = xw.base[cell]
        /\ \A cell \in XlsxCells \ recorded(xw.changed_datas) :
              ~xw.restored => xw.sheet[cell] = xw.base[cell]
        /\ xw.restored =>
              /\ \A cell \in XlsxCells : xw.sheet[cell] = xw.base[cell]
              /\ DOMAIN xw.changed_datas = {}
              /\ (xw.last_op = "save" => ~xw.wrote)

====
